---- MODULE Spec2Model ----
(***************************************************************************)
(* State-machine model of the gastrogram backend (Django + DRF):           *)
(* the relational tables of recipes/models.py and the request handlers of  *)
(* api/views.py with the serializers and permissions they call.            *)
(*                                                                         *)
(* A table is a function from its possible rows to the number of copies    *)
(* of that row it holds, so that a duplicate row is a state the model can  *)
(* express and uniqueness is something the handlers have to establish.     *)
(***************************************************************************)
EXTENDS Integers, Sequences, FiniteSets, TLC

(* ------------------------------ bounds --------------------------------- *)
NumUsers == 2
NumRecipes == 2
NumIngredients == 2
NumTags == 2
\* SpecRace: requests that can be between their check and their INSERT
NumWorkers == 2
\* Spec: recipes stored at the same time
MaxStored == 1
\* SpecTags: characters of a slug, and Tag rows added
MaxSlugLen == 2
MaxTags == 2

(* ------------------- constants of the program -------------------------- *)
\* recipes_backend/constants.py (scaled down; the file sets the real values)
MIN_COOKING_TIME == 1
MAX_COOKING_TIME == 2
MIN_NUMBERS_OF_ELEMENTS == 1
MAX_NUMBERS_OF_ELEMENTS == 2

\* REST_FRAMEWORK['PAGE_SIZE'] of settings.py
PAGE_SIZE == 6

HTTP_200_OK == 200
HTTP_201_CREATED == 201
HTTP_204_NO_CONTENT == 204
HTTP_400_BAD_REQUEST == 400
HTTP_401_UNAUTHORIZED == 401
HTTP_403_FORBIDDEN == 403
HTTP_404_NOT_FOUND == 404
HTTP_500_INTERNAL_SERVER_ERROR == 500

\* request.user of a request without a valid token (AnonymousUser, id None)
Anonymous == 0

UserIds == 1..NumUsers
\* ids a request may name; the last one is never a row of User
TargetUserIds == 1..(NumUsers + 1)
Requesters == UserIds \cup {Anonymous}
RecipeIds == 1..NumRecipes
\* ids a request may name; the last one is never a row of Recipe
TargetRecipeIds == 1..(NumRecipes + 1)
IngredientIds == 1..NumIngredients
TagIds == 1..NumTags
Workers == 1..NumWorkers
Amounts == MIN_NUMBERS_OF_ELEMENTS..MAX_NUMBERS_OF_ELEMENTS

SAFE_METHODS == {"GET", "HEAD", "OPTIONS"}

(* ------------------------- reference data ------------------------------ *)
\* Ingredient rows.  A name is the rank of the name in alphabetical order;
\* names are unique and their order is the reverse of the order of the ids.
IngredientName(i) == NumIngredients + 1 - i
IngredientUnit(i) == i % 2

(* ------------------------------ state ---------------------------------- *)
VARIABLES
    users,               \* User: the set of ids
    recipes,             \* Recipe and its tags: id -> record, or NoRecipe
    recipe_ingredients,  \* RecipeIngredient: <<recipe, ingredient, amount>> -> copies
    favorites,           \* FavoriteRecipe: <<user, recipe>> -> copies
    shopping_cart,       \* ShoppingCart: <<user, recipe>> -> copies
    subscriptions,       \* Subscription: <<follower, author>> -> copies
    tag_slugs,           \* Tag: the slugs of the rows added to the reference tags
    inflight,            \* validated POSTs whose INSERT has not run yet
    response,            \* the last request and the answer it got
    before               \* the tables as the last step found them

vars == <<users, recipes, recipe_ingredients, favorites, shopping_cart,
          subscriptions, tag_slugs, inflight, response, before>>
tables == <<users, recipes, recipe_ingredients, favorites, shopping_cart,
            subscriptions, tag_slugs>>

\* the content of the database
Snapshot ==
    [users |-> users, recipes |-> recipes,
     recipe_ingredients |-> recipe_ingredients, favorites |-> favorites,
     shopping_cart |-> shopping_cart, subscriptions |-> subscriptions,
     tag_slugs |-> tag_slugs]

\* the value of recipes[pk] when Recipe has no row with that id
NoRecipe == [author |-> Anonymous, tags |-> {}, cooking_time |-> 0, image |-> FALSE]

RecipeIngredientRows == RecipeIds \X IngredientIds \X Amounts
UserRecipeRows == UserIds \X RecipeIds
SubscriptionRows == UserIds \X UserIds

EmptyTable(rows) == [row \in rows |-> 0]

RecipeExists(pk) == pk \in RecipeIds /\ recipes[pk] # NoRecipe
UserExists(id) == id \in users

\* request.data of a request whose handler reads none
NoData == <<>>

Response(op, method, user, pk, status, body) ==
    [op |-> op, method |-> method, user |-> user, pk |-> pk, data |-> NoData,
     status |-> status, body |-> body]

NoResponse == Response("none", "none", Anonymous, 0, 0, <<>>)

(* ---------------------------- permissions ------------------------------ *)
\* rest_framework.permissions.IsAuthenticated, as the actions name it
IsAuthenticated(user) == user # Anonymous

\* mutant: a permission that lets every request through
has_permission_allow_any(method, user) == TRUE

\* AuthorOrReadOnly.has_permission
has_permission(method, user) ==
    method \in SAFE_METHODS \/ ~(user = Anonymous)

\* mutant: an object permission that does not look at the author
has_object_permission_any_user(method, user, obj) == TRUE

\* AuthorOrReadOnly.has_object_permission
has_object_permission(method, user, obj) ==
    method \in SAFE_METHODS \/ obj.author = user

\* A refused request of a user that did not authenticate: TokenAuthentication
\* supplies a WWW-Authenticate header, so DRF answers 401 rather than 403.
NotAuthenticatedStatus == HTTP_401_UNAUTHORIZED

(* -------------------------- the ORM's writes --------------------------- *)
\* mutant: the tables without their unique constraint
UniqueConstraint_absent(table, row) == TRUE

\* UniqueConstraint of FavoriteRecipe, ShoppingCart and Subscription
UniqueConstraint(table, row) == table[row] = 0

\* serializer.save(): INSERT of one row; the database refuses a row that
\* breaks the unique constraint (IntegrityError, which no handler catches).
save(table, row) ==
    IF UniqueConstraint(table, row)
    THEN [status |-> HTTP_201_CREATED, table |-> [table EXCEPT ![row] = @ + 1]]
    ELSE [status |-> HTTP_500_INTERNAL_SERVER_ERROR, table |-> table]

\* obj.delete(): removes the one row that objects.get() returned
delete(table, row) == [table EXCEPT ![row] = @ - 1]

\* objects.get(): exactly one row, else DoesNotExist / MultipleObjectsReturned
get(table, row) ==
    IF table[row] = 0 THEN "DoesNotExist"
    ELSE IF table[row] = 1 THEN "found"
    ELSE "MultipleObjectsReturned"

(* ------------------- favorite / shopping_cart -------------------------- *)
\* mutant: validate without the look-up of an existing row
validate_favorite_shopping_cart_unchecked(table, data) == TRUE

\* BaseFavoriteShopingCartSerializer.validate: TRUE when the data pass
validate_favorite_shopping_cart(table, data) ==
    ~(table[<<data.user, data.recipe>>] > 0)

\* RecipeViewSet.add_to up to serializer.is_valid(raise_exception=True):
\* the status of the refusal, or 0 when the request goes on to save()
add_to_is_valid(table, user, pk) ==
    IF ~RecipeExists(pk)
    THEN HTTP_404_NOT_FOUND
    ELSE LET data == [user |-> user, recipe |-> pk]
         IN  IF ~validate_favorite_shopping_cart(table, data)
             THEN HTTP_400_BAD_REQUEST
             ELSE 0

\* RecipeViewSet.add_to
add_to(table, user, pk) ==
    LET refused == add_to_is_valid(table, user, pk)
    IN  IF refused # 0
        THEN [status |-> refused, table |-> table]
        ELSE save(table, <<user, pk>>)

\* mutant: delete_from written as objects.filter(...).delete(), which does
\* not notice that no row matched
delete_from_filter(table, user, pk) ==
    IF ~RecipeExists(pk)
    THEN [status |-> HTTP_404_NOT_FOUND, table |-> table]
    ELSE [status |-> HTTP_204_NO_CONTENT,
          table |-> [table EXCEPT ![<<user, pk>>] = 0]]

\* RecipeViewSet.delete_from; django.core.exceptions.BadRequest is answered
\* by Django with 400, MultipleObjectsReturned is not caught at all.
delete_from(table, user, pk) ==
    IF ~RecipeExists(pk)
    THEN [status |-> HTTP_404_NOT_FOUND, table |-> table]
    ELSE LET current_object == get(table, <<user, pk>>)
         IN  IF current_object = "DoesNotExist"
             THEN [status |-> HTTP_400_BAD_REQUEST, table |-> table]
             ELSE IF current_object = "MultipleObjectsReturned"
             THEN [status |-> HTTP_500_INTERNAL_SERVER_ERROR, table |-> table]
             ELSE [status |-> HTTP_204_NO_CONTENT,
                   table |-> delete(table, <<user, pk>>)]

\* RecipeViewSet.favorite
favorite(method, user, pk) ==
    LET res == IF ~IsAuthenticated(user)
               THEN [status |-> NotAuthenticatedStatus, table |-> favorites]
               ELSE IF method = "POST"
               THEN add_to(favorites, user, pk)
               ELSE delete_from(favorites, user, pk)
    IN  /\ favorites' = res.table
        /\ response' = Response("favorite", method, user, pk, res.status, <<>>)
        /\ before' = Snapshot
        /\ UNCHANGED <<tag_slugs, users, recipes, recipe_ingredients, shopping_cart,
                       subscriptions, inflight>>

\* RecipeViewSet.shopping_cart
shopping_cart_action(method, user, pk) ==
    LET res == IF ~IsAuthenticated(user)
               THEN [status |-> NotAuthenticatedStatus, table |-> shopping_cart]
               ELSE IF method = "POST"
               THEN add_to(shopping_cart, user, pk)
               ELSE delete_from(shopping_cart, user, pk)
    IN  /\ shopping_cart' = res.table
        /\ response' = Response("shopping_cart", method, user, pk, res.status, <<>>)
        /\ before' = Snapshot
        /\ UNCHANGED <<tag_slugs, users, recipes, recipe_ingredients, favorites,
                       subscriptions, inflight>>

(* ---------------------------- subscribe -------------------------------- *)
\* mutant: the serializer without its UniqueTogetherValidator
UniqueTogetherValidator_absent(table, data) == TRUE

\* SubscriptionSerializer.Meta.validators: UniqueTogetherValidator
UniqueTogetherValidator(table, data) ==
    ~(table[<<data.follower, data.author>>] > 0)

\* mutant: validate without the comparison of author and follower
validate_subscription_unchecked(data) == TRUE

\* SubscriptionSerializer.validate: TRUE when the data pass
validate_subscription(data) == ~(data.author = data.follower)

\* BaseUserViewSet.subscribe, after the permission check
subscribe_handler(method, user, id) ==
    IF ~UserExists(id)
    THEN [status |-> HTTP_404_NOT_FOUND, table |-> subscriptions]
    ELSE IF method = "POST"
    THEN LET data == [follower |-> user, author |-> id]
         IN  IF ~UniqueTogetherValidator(subscriptions, data)
             THEN [status |-> HTTP_400_BAD_REQUEST, table |-> subscriptions]
             ELSE IF ~validate_subscription(data)
             THEN [status |-> HTTP_400_BAD_REQUEST, table |-> subscriptions]
             ELSE save(subscriptions, <<data.follower, data.author>>)
    ELSE LET subscription == get(subscriptions, <<user, id>>)
         IN  IF subscription = "DoesNotExist"
             THEN [status |-> HTTP_400_BAD_REQUEST, table |-> subscriptions]
             ELSE IF subscription = "MultipleObjectsReturned"
             THEN [status |-> HTTP_500_INTERNAL_SERVER_ERROR,
                   table |-> subscriptions]
             ELSE [status |-> HTTP_204_NO_CONTENT,
                   table |-> delete(subscriptions, <<user, id>>)]

\* BaseUserViewSet.subscribe
subscribe(method, user, id) ==
    LET res == IF ~IsAuthenticated(user)
               THEN [status |-> NotAuthenticatedStatus, table |-> subscriptions]
               ELSE subscribe_handler(method, user, id)
    IN  /\ subscriptions' = res.table
        /\ response' = Response("subscribe", method, user, id, res.status, <<>>)
        /\ before' = Snapshot
        /\ UNCHANGED <<tag_slugs, users, recipes, recipe_ingredients, favorites,
                       shopping_cart, inflight>>

(* ---------------------- download_shopping_cart ------------------------- *)
\* mutant: a join with the cart rows of every user
JoinCopies_of_every_cart(user, ri) ==
    LET RECURSIVE carts(_)
        carts(ids) ==
            IF ids = {} THEN 0
            ELSE LET id == CHOOSE x \in ids : TRUE
                 IN  shopping_cart[<<id, ri[1]>>] + carts(ids \ {id})
    IN  recipe_ingredients[ri] * carts(UserIds)

\* copies of a RecipeIngredient row in the join with the user's cart rows
\* (filter(recipe__shopping_cart__user=request.user) is an inner join)
JoinCopies(user, ri) ==
    recipe_ingredients[ri] * shopping_cart[<<user, ri[1]>>]

QueryRows(user) == {ri \in RecipeIngredientRows : JoinCopies(user, ri) > 0}

\* values('ingredient__name', 'ingredient__measurement_unit'): the group key
GroupKey(ri) == <<IngredientName(ri[2]), IngredientUnit(ri[2])>>

\* mutant: the amount of one row of the group instead of their sum
RECURSIVE SumAmount_of_one_row(_, _)
SumAmount_of_one_row(rows, user) ==
    IF rows = {} THEN 0
    ELSE LET ri == CHOOSE x \in rows : TRUE
         IN  ri[3]

\* Sum('amount') over the joined rows of one group
RECURSIVE SumAmount(_, _)
SumAmount(rows, user) ==
    IF rows = {} THEN 0
    ELSE LET ri == CHOOSE x \in rows : TRUE
         IN  ri[3] * JoinCopies(user, ri) + SumAmount(rows \ {ri}, user)

\* the rows of the query: one per group
Aggregate(user) ==
    {[ingredient__name |-> k[1],
      ingredient__measurement_unit |-> k[2],
      sum |-> SumAmount({ri \in QueryRows(user) : GroupKey(ri) = k}, user)]
     : k \in {GroupKey(ri) : ri \in QueryRows(user)}}

\* every order in which a set of rows can be listed
Orderings(S) ==
    IF S = {} THEN {<<>>}
    ELSE {seq \in [1..Cardinality(S) -> S] :
            \A i, j \in 1..Cardinality(S) : i # j => seq[i] # seq[j]}

\* The query has no order_by and RecipeIngredient.Meta no ordering: the
\* database may return the groups in any order.
QueryResults(user) == Orderings(Aggregate(user))

\* RecipeViewSet.ingredients_to_txt: "<name> - <sum>(<unit>)\n" per row
ingredients_to_txt(ingredients) ==
    [i \in DOMAIN ingredients |->
        <<ingredients[i].ingredient__name, "-", ingredients[i].sum,
          ingredients[i].ingredient__measurement_unit>>]

\* mutant: an export that empties the cart it has listed
download_shopping_cart_and_clear(user) ==
    /\ IF ~IsAuthenticated(user)
       THEN /\ response' = Response("download_shopping_cart", "GET", user, 0,
                                    NotAuthenticatedStatus, <<>>)
            /\ UNCHANGED shopping_cart
       ELSE /\ \E ingredients \in QueryResults(user) :
                   response' = Response("download_shopping_cart", "GET", user,
                                        0, HTTP_200_OK,
                                        ingredients_to_txt(ingredients))
            /\ shopping_cart' = [row \in UserRecipeRows |->
                                    IF row[1] = user THEN 0
                                    ELSE shopping_cart[row]]
    /\ before' = Snapshot
    /\ UNCHANGED <<tag_slugs, users, recipes, recipe_ingredients, favorites,
                   subscriptions, inflight>>

\* RecipeViewSet.download_shopping_cart
download_shopping_cart(user) ==
    /\ IF ~IsAuthenticated(user)
       THEN response' = Response("download_shopping_cart", "GET", user, 0,
                                 NotAuthenticatedStatus, <<>>)
       ELSE \E ingredients \in QueryResults(user) :
                response' = Response("download_shopping_cart", "GET", user, 0,
                                     HTTP_200_OK,
                                     ingredients_to_txt(ingredients))
    /\ before' = Snapshot
    /\ UNCHANGED <<tag_slugs, users, recipes, recipe_ingredients, favorites,
                   shopping_cart, subscriptions, inflight>>

(* ------------------------- computed flags ------------------------------ *)
\* UserSerializer.get_is_subscribed
get_is_subscribed(user, object) ==
    /\ IsAuthenticated(user)
    /\ subscriptions[<<user, object>>] > 0

\* mutant: the flag looks for a row of any user, not of the requesting one
get_is_favorited_of_anyone(user, object) ==
    \E u \in UserIds : favorites[<<u, object>>] > 0

\* RecipeReadSerializer.get_is_favorited
get_is_favorited(user, object) ==
    /\ IsAuthenticated(user)
    /\ favorites[<<user, object>>] > 0

\* mutant: the flag looks for a cart row of any user
get_is_in_shopping_cart_of_anyone(user, object) ==
    /\ IsAuthenticated(user)
    /\ \E u \in UserIds : shopping_cart[<<u, object>>] > 0

\* RecipeReadSerializer.get_is_in_shopping_cart
get_is_in_shopping_cart(user, object) ==
    /\ IsAuthenticated(user)
    /\ shopping_cart[<<user, object>>] > 0

\* RecipeReadSerializer over given Recipe and RecipeIngredient tables: the
\* read-representation of a stored recipe for the user of the request
\* (IngredientRecipeAllSerializer for its rows, UserSerializer for its author)
to_representation(recipe_table, ingredient_table, user, pk) ==
    [id |-> pk,
     tags |-> recipe_table[pk].tags,
     author |-> [id |-> recipe_table[pk].author,
                 is_subscribed |->
                     get_is_subscribed(user, recipe_table[pk].author)],
     ingredients |-> {[id |-> row[2], name |-> IngredientName(row[2]),
                       measurement_unit |-> IngredientUnit(row[2]),
                       amount |-> row[3]] :
                        row \in {r \in RecipeIngredientRows :
                                    r[1] = pk /\ ingredient_table[r] > 0}},
     is_favorited |-> get_is_favorited(user, pk),
     is_in_shopping_cart |-> get_is_in_shopping_cart(user, pk),
     image |-> recipe_table[pk].image,
     cooking_time |-> recipe_table[pk].cooking_time]

\* what a GET of the recipe is answered in the current state
RecipeRead(user, pk) == to_representation(recipes, recipe_ingredients, user, pk)

(* ------------------------ recipe create/update ------------------------- *)
Range(seq) == {seq[i] : i \in DOMAIN seq}

\* the field-level checks of RecipeCreateUpdateSerializer (to_internal_value):
\* ingredient ids exist, amounts and cooking_time are in range, tags exist,
\* and on a non-partial request tags and image are present.  An absent
\* field and an empty one are both written <<>> (FALSE for the image).
fields_valid(data, partial) ==
    /\ \A i \in DOMAIN data.ingredients :
          /\ data.ingredients[i].id \in IngredientIds
          /\ data.ingredients[i].amount >= MIN_NUMBERS_OF_ELEMENTS
          /\ data.ingredients[i].amount <= MAX_NUMBERS_OF_ELEMENTS
    /\ \A i \in DOMAIN data.tags : data.tags[i] \in TagIds
    /\ data.cooking_time >= MIN_COOKING_TIME
    /\ partial \/ (data.tags # <<>> /\ data.image)

\* mutant: validate with the checks of the tags only
validate_recipe_tags_only(data) ==
    /\ data.tags # <<>>
    /\ Len(data.tags) = Cardinality(Range(data.tags))

\* RecipeCreateUpdateSerializer.validate: TRUE when the data pass
validate_recipe(data) ==
    /\ data.tags # <<>>
    /\ Len(data.tags) = Cardinality(Range(data.tags))
    /\ data.ingredients # <<>>
    /\ Len(data.ingredients) =
          Cardinality({data.ingredients[i].id : i \in DOMAIN data.ingredients})

is_valid(data, partial) == fields_valid(data, partial) /\ validate_recipe(data)

\* UniqueConstraint of RecipeIngredient on (recipe, ingredient)
unique_recipe_ingredient(table, recipe, ingredient) ==
    \A a \in Amounts : table[<<recipe, ingredient, a>>] = 0

\* RecipeCreateUpdateSerializer.add_ingredients: one bulk INSERT, refused as
\* a whole (IntegrityError) when a row of it breaks the unique constraint
add_ingredients(table, ingredients_data, recipe) ==
    LET ids == {ingredients_data[i].id : i \in DOMAIN ingredients_data}
        rows == {<<recipe, ingredients_data[i].id, ingredients_data[i].amount>> :
                    i \in DOMAIN ingredients_data}
    IN  IF /\ Cardinality(ids) = Len(ingredients_data)
           /\ \A id \in ids : unique_recipe_ingredient(table, recipe, id)
        THEN [ok |-> TRUE,
              table |-> [row \in RecipeIngredientRows |->
                            IF row \in rows THEN table[row] + 1 ELSE table[row]]]
        ELSE [ok |-> FALSE, table |-> table]

\* mutant: a clear() that empties RecipeIngredient for every recipe
clear_ingredients_of_all(table, recipe) == EmptyTable(RecipeIngredientRows)

\* mutant: an update that keeps the rows the recipe had
clear_ingredients_skipped(table, recipe) == table

\* instance.ingredients.clear(): deletes the recipe's RecipeIngredient rows
clear_ingredients(table, recipe) ==
    [row \in RecipeIngredientRows |-> IF row[1] = recipe THEN 0 ELSE table[row]]

\* mutant: foreign keys that leave the rows of a deleted recipe behind
cascade_recipe_skipped(table, recipe) == table

\* on_delete=CASCADE of FavoriteRecipe.recipe and ShoppingCart.recipe
cascade_recipe(table, recipe) ==
    [row \in UserRecipeRows |-> IF row[2] = recipe THEN 0 ELSE table[row]]

\* the id the database gives the next Recipe row (ids are kept within
\* RecipeIds: the id of a deleted recipe, whose rows are all gone, is reused)
FreeRecipeIds == {id \in RecipeIds : recipes[id] = NoRecipe}
NextRecipeId == CHOOSE id \in FreeRecipeIds : \A other \in FreeRecipeIds : id <= other

RecipeRow(author, data) ==
    [author |-> author, tags |-> Range(data.tags),
     cooking_time |-> data.cooking_time, image |-> data.image]

\* RecipeViewSet.create with RecipeCreateUpdateSerializer.create; the answer
\* is serializer.data, which to_representation takes from
\* RecipeReadSerializer once the rows are written
recipe_create(user, data) ==
    LET Answer(pk, status, body) ==
            [Response("recipes", "POST", user, pk, status, body)
                EXCEPT !.data = data]
    IN  IF ~has_permission("POST", user)
        THEN /\ response' = Answer(0, NotAuthenticatedStatus, <<>>)
             /\ UNCHANGED <<recipes, recipe_ingredients>>
        ELSE IF ~is_valid(data, FALSE) \/ ~data.image
        THEN /\ response' = Answer(0, HTTP_400_BAD_REQUEST, <<>>)
             /\ UNCHANGED <<recipes, recipe_ingredients>>
        ELSE /\ FreeRecipeIds # {}
             /\ LET recipe == NextRecipeId
                    added == add_ingredients(recipe_ingredients,
                                             data.ingredients, recipe)
                    row == RecipeRow(user, data)
                IN  /\ recipes' = [recipes EXCEPT ![recipe] = row]
                    /\ recipe_ingredients' = added.table
                    /\ response' =
                          IF added.ok
                          THEN Answer(recipe, HTTP_201_CREATED,
                                      to_representation(
                                          [recipes EXCEPT ![recipe] = row],
                                          added.table, user, recipe))
                          ELSE Answer(recipe, HTTP_500_INTERNAL_SERVER_ERROR,
                                      <<>>)

RecipeCreate(user, data) ==
    /\ UNCHANGED <<tag_slugs, users, favorites, shopping_cart, subscriptions, inflight>>
    /\ recipe_create(user, data)
    /\ before' = Snapshot

\* mutant: an update that asks for neither image nor ingredients
update_requires_nothing(validated_data) == TRUE

\* the two checks RecipeCreateUpdateSerializer.update makes before it
\* writes: TRUE when validated_data has an image and ingredients
update_requires(validated_data) ==
    /\ validated_data.image
    /\ validated_data.ingredients # <<>>

\* RecipeViewSet.update / partial_update with
\* RecipeCreateUpdateSerializer.update
recipe_update(method, user, pk, data) ==
    LET Answer(status, body) ==
            [Response("recipes", method, user, pk, status, body)
                EXCEPT !.data = data]
        refuse(status) ==
            /\ response' = Answer(status, <<>>)
            /\ UNCHANGED <<recipes, recipe_ingredients>>
    IN  IF ~has_permission(method, user) THEN refuse(NotAuthenticatedStatus)
        ELSE IF ~RecipeExists(pk) THEN refuse(HTTP_404_NOT_FOUND)
        ELSE IF ~has_object_permission(method, user, recipes[pk])
        THEN refuse(HTTP_403_FORBIDDEN)
        ELSE IF ~is_valid(data, method = "PATCH")
        THEN refuse(HTTP_400_BAD_REQUEST)
        ELSE IF ~update_requires(data)
        THEN refuse(HTTP_400_BAD_REQUEST)
        ELSE LET added == add_ingredients(
                              clear_ingredients(recipe_ingredients, pk),
                              data.ingredients, pk)
                 row == RecipeRow(recipes[pk].author, data)
             IN  /\ recipes' = [recipes EXCEPT ![pk] = row]
                 /\ recipe_ingredients' = added.table
                 /\ response' =
                       IF added.ok
                       THEN Answer(HTTP_200_OK,
                                   to_representation(
                                       [recipes EXCEPT ![pk] = row],
                                       added.table, user, pk))
                       ELSE Answer(HTTP_500_INTERNAL_SERVER_ERROR, <<>>)

RecipeUpdate(method, user, pk, data) ==
    /\ UNCHANGED <<tag_slugs, users, favorites, shopping_cart, subscriptions, inflight>>
    /\ recipe_update(method, user, pk, data)
    /\ before' = Snapshot

\* RecipeViewSet.destroy; the rows that refer to the recipe go with it
RecipeDestroy(user, pk) ==
    LET refuse(status) ==
            /\ response' = Response("recipes", "DELETE", user, pk, status, <<>>)
            /\ UNCHANGED <<recipes, recipe_ingredients, favorites, shopping_cart>>
    IN  /\ IF ~has_permission("DELETE", user) THEN refuse(NotAuthenticatedStatus)
           ELSE IF ~RecipeExists(pk) THEN refuse(HTTP_404_NOT_FOUND)
           ELSE IF ~has_object_permission("DELETE", user, recipes[pk])
           THEN refuse(HTTP_403_FORBIDDEN)
           ELSE /\ recipes' = [recipes EXCEPT ![pk] = NoRecipe]
                /\ recipe_ingredients' = clear_ingredients(recipe_ingredients, pk)
                /\ favorites' = cascade_recipe(favorites, pk)
                /\ shopping_cart' = cascade_recipe(shopping_cart, pk)
                /\ response' = Response("recipes", "DELETE", user, pk,
                                        HTTP_204_NO_CONTENT, <<>>)
        /\ before' = Snapshot
        /\ UNCHANGED <<tag_slugs, users, subscriptions, inflight>>

\* RecipeViewSet.retrieve (GET is a safe method: no authentication needed)
RecipeRetrieve(user, pk) ==
    /\ IF ~has_permission("GET", user)
       THEN response' = Response("recipes", "GET", user, pk,
                                 NotAuthenticatedStatus, <<>>)
       ELSE IF ~RecipeExists(pk)
       THEN response' = Response("recipes", "GET", user, pk,
                                 HTTP_404_NOT_FOUND, <<>>)
       ELSE response' = Response("recipes", "GET", user, pk, HTTP_200_OK,
                                 RecipeRead(user, pk))
    /\ before' = Snapshot
    /\ UNCHANGED <<tag_slugs, users, recipes, recipe_ingredients, favorites,
                   shopping_cart, subscriptions, inflight>>

(* --------------------------- specification ----------------------------- *)
\* a worker that is not between the check and the INSERT of a POST
Idle == [op |-> "idle", user |-> Anonymous, pk |-> 0]

\* a recipe payload that passes every check
ValidPayload ==
    [tags |-> <<1>>,
     ingredients |-> <<[id |-> 1, amount |-> MIN_NUMBERS_OF_ELEMENTS]>>,
     cooking_time |-> MIN_COOKING_TIME,
     image |-> TRUE]

\* the recipe payloads of the requests of Spec: the valid one and one
\* without tags
Payloads == {ValidPayload, [ValidPayload EXCEPT !.tags = <<>>]}

StoredRecipeIds == {id \in RecipeIds : recipes[id] # NoRecipe}

Init ==
    /\ users = UserIds
    /\ tag_slugs = {}
    /\ recipes = [id \in RecipeIds |-> NoRecipe]
    /\ recipe_ingredients = EmptyTable(RecipeIngredientRows)
    /\ favorites = EmptyTable(UserRecipeRows)
    /\ shopping_cart = EmptyTable(UserRecipeRows)
    /\ subscriptions = EmptyTable(SubscriptionRows)
    /\ inflight = [w \in Workers |-> Idle]
    /\ response = NoResponse
    /\ before = Snapshot

Favorite ==
    \E method \in {"POST", "DELETE"}, user \in Requesters, pk \in TargetRecipeIds :
        favorite(method, user, pk)

ShoppingCart ==
    \E method \in {"POST", "DELETE"}, user \in Requesters, pk \in TargetRecipeIds :
        shopping_cart_action(method, user, pk)

Subscribe ==
    \E method \in {"POST", "DELETE"}, user \in Requesters, id \in TargetUserIds :
        subscribe(method, user, id)

DownloadShoppingCart == \E user \in Requesters : download_shopping_cart(user)

Create ==
    \E user \in Requesters, data \in Payloads :
        /\ Cardinality(StoredRecipeIds) < MaxStored
        /\ RecipeCreate(user, data)

Update ==
    \E method \in {"PUT", "PATCH"}, user \in Requesters, pk \in TargetRecipeIds,
       data \in Payloads :
        RecipeUpdate(method, user, pk, data)

Destroy == \E user \in Requesters, pk \in TargetRecipeIds : RecipeDestroy(user, pk)

Retrieve == \E user \in Requesters, pk \in TargetRecipeIds : RecipeRetrieve(user, pk)

\* The whole API, requests served one at a time.
Next ==
    \/ Favorite
    \/ ShoppingCart
    \/ Subscribe
    \/ DownloadShoppingCart
    \/ Create
    \/ Update
    \/ Destroy
    \/ Retrieve

Spec == Init /\ [][Next]_vars

\* The relationship actions on a database in which every user has written
\* one recipe (user i wrote recipe i, as far as there are recipes).
StoredRecipe(author) == RecipeRow(author, ValidPayload)

InitSocial ==
    /\ users = UserIds
    /\ tag_slugs = {}
    /\ recipes = [id \in RecipeIds |->
                     StoredRecipe(IF id \in UserIds THEN id ELSE NumUsers)]
    /\ recipe_ingredients =
          [row \in RecipeIngredientRows |->
              IF row[2] = 1 /\ row[3] = MIN_NUMBERS_OF_ELEMENTS THEN 1 ELSE 0]
    /\ favorites = EmptyTable(UserRecipeRows)
    /\ shopping_cart = EmptyTable(UserRecipeRows)
    /\ subscriptions = EmptyTable(SubscriptionRows)
    /\ inflight = [w \in Workers |-> Idle]
    /\ response = NoResponse
    /\ before = Snapshot

NextSocial ==
    \/ Favorite
    \/ ShoppingCart
    \/ Subscribe
    \/ Retrieve

SpecSocial == InitSocial /\ [][NextSocial]_vars

\* The shopping cart and its export over every valid content of the
\* recipes: each recipe has at least one ingredient and no ingredient twice.
RecipeContents ==
    {c \in [RecipeIds \X IngredientIds -> {0} \cup Amounts] :
        \A recipe \in RecipeIds : \E i \in IngredientIds : c[<<recipe, i>>] # 0}

InitCart ==
    /\ users = UserIds
    /\ tag_slugs = {}
    /\ recipes = [id \in RecipeIds |->
                     StoredRecipe(IF id \in UserIds THEN id ELSE NumUsers)]
    /\ \E c \in RecipeContents :
          recipe_ingredients =
              [row \in RecipeIngredientRows |->
                  IF c[<<row[1], row[2]>>] = row[3] THEN 1 ELSE 0]
    /\ favorites = EmptyTable(UserRecipeRows)
    /\ shopping_cart = EmptyTable(UserRecipeRows)
    /\ subscriptions = EmptyTable(SubscriptionRows)
    /\ inflight = [w \in Workers |-> Idle]
    /\ response = NoResponse
    /\ before = Snapshot

NextCart ==
    \/ ShoppingCart
    \/ DownloadShoppingCart

SpecCart == InitCart /\ [][NextCart]_vars

\* favorite and shopping_cart served by workers that run at the same time:
\* a POST is the check of add_to in one step and its INSERT in a later one,
\* and other requests may be served in between.
begin_add_to(w, op, user, pk) ==
    /\ inflight[w] = Idle
    /\ LET refused ==
               IF ~IsAuthenticated(user) THEN NotAuthenticatedStatus
               ELSE add_to_is_valid(IF op = "favorite" THEN favorites
                                    ELSE shopping_cart, user, pk)
       IN  IF refused # 0
           THEN /\ response' = Response(op, "POST", user, pk, refused, <<>>)
                /\ UNCHANGED inflight
           ELSE /\ inflight' = [inflight EXCEPT
                                   ![w] = [op |-> op, user |-> user, pk |-> pk]]
                /\ UNCHANGED response
    /\ before' = Snapshot
    /\ UNCHANGED tables

finish_add_to(w) ==
    /\ inflight[w] # Idle
    /\ LET request == inflight[w]
           row == <<request.user, request.pk>>
           res == save(IF request.op = "favorite" THEN favorites
                       ELSE shopping_cart, row)
       IN  /\ IF request.op = "favorite"
              THEN favorites' = res.table /\ UNCHANGED shopping_cart
              ELSE shopping_cart' = res.table /\ UNCHANGED favorites
           /\ response' = Response(request.op, "POST", request.user,
                                   request.pk, res.status, <<>>)
    /\ inflight' = [inflight EXCEPT ![w] = Idle]
    /\ before' = Snapshot
    /\ UNCHANGED <<tag_slugs, users, recipes, recipe_ingredients, subscriptions>>

InitRace ==
    /\ users = UserIds
    /\ tag_slugs = {}
    /\ recipes = [id \in RecipeIds |->
                     IF id = 1 THEN StoredRecipe(1) ELSE NoRecipe]
    /\ recipe_ingredients =
          [row \in RecipeIngredientRows |->
              IF row = <<1, 1, MIN_NUMBERS_OF_ELEMENTS>> THEN 1 ELSE 0]
    /\ favorites = EmptyTable(UserRecipeRows)
    /\ shopping_cart = EmptyTable(UserRecipeRows)
    /\ subscriptions = EmptyTable(SubscriptionRows)
    /\ inflight = [w \in Workers |-> Idle]
    /\ response = NoResponse
    /\ before = Snapshot

BeginPost ==
    \E w \in Workers, op \in {"favorite", "shopping_cart"}, user \in Requesters,
       pk \in TargetRecipeIds :
        begin_add_to(w, op, user, pk)

FinishPost == \E w \in Workers : finish_add_to(w)

FavoriteDelete ==
    \E user \in Requesters, pk \in TargetRecipeIds : favorite("DELETE", user, pk)

ShoppingCartDelete ==
    \E user \in Requesters, pk \in TargetRecipeIds :
        shopping_cart_action("DELETE", user, pk)

NextRace ==
    \/ BeginPost
    \/ FinishPost
    \/ FavoriteDelete
    \/ ShoppingCartDelete

SpecRace == InitRace /\ [][NextRace]_vars

\* The recipe actions over payloads of every kind the serializer tells
\* apart: three that pass (they differ in tags, ingredients and
\* cooking_time), and one for each way of failing.
Ingredient(id, amount) == [id |-> id, amount |-> amount]

RecipePayloads ==
    {ValidPayload,
     [tags |-> <<1, NumTags>>,
      ingredients |-> <<Ingredient(1, MAX_NUMBERS_OF_ELEMENTS),
                        Ingredient(NumIngredients, MIN_NUMBERS_OF_ELEMENTS)>>,
      cooking_time |-> MAX_COOKING_TIME, image |-> TRUE],
     [tags |-> <<NumTags>>,
      ingredients |-> <<Ingredient(NumIngredients, MAX_NUMBERS_OF_ELEMENTS)>>,
      cooking_time |-> MAX_COOKING_TIME, image |-> TRUE],
     [ValidPayload EXCEPT !.tags = <<>>],
     [ValidPayload EXCEPT !.tags = <<1, 1>>],
     [ValidPayload EXCEPT !.ingredients = <<>>],
     [ValidPayload EXCEPT
         !.ingredients = <<Ingredient(1, MIN_NUMBERS_OF_ELEMENTS),
                           Ingredient(1, MAX_NUMBERS_OF_ELEMENTS)>>],
     [ValidPayload EXCEPT !.cooking_time = MAX_COOKING_TIME + 1],
     [ValidPayload EXCEPT !.cooking_time = MIN_COOKING_TIME - 1],
     [ValidPayload EXCEPT !.image = FALSE]}

CreateAny ==
    \E user \in Requesters, data \in RecipePayloads : RecipeCreate(user, data)

UpdateAny ==
    \E method \in {"PUT", "PATCH"}, user \in Requesters,
       pk \in TargetRecipeIds, data \in RecipePayloads :
        RecipeUpdate(method, user, pk, data)

NextRecipes ==
    \/ CreateAny
    \/ UpdateAny
    \/ Destroy
    \/ Retrieve

SpecRecipes == Init /\ [][NextRecipes]_vars

\* Updates of one recipe served by workers that run at the same time.  The
\* code opens no transaction (no transaction.atomic, no ATOMIC_REQUESTS), so
\* every statement of RecipeCreateUpdateSerializer.update commits on its own
\* and the statements of two requests interleave.
Updating(w, pc) == inflight[w].op = "update" /\ inflight[w].pc = pc

Proceed(w, pc) == inflight' = [inflight EXCEPT ![w].pc = pc]

UpdateAnswer(w, status, body) ==
    [Response("recipes", "PUT", inflight[w].user, inflight[w].pk, status, body)
        EXCEPT !.data = inflight[w].data]

\* permissions, get_object and serializer.is_valid of a PUT
update_begin(w, user, pk, data) ==
    /\ inflight[w].op = "idle"
    /\ LET refuse(status) ==
               /\ response' = [Response("recipes", "PUT", user, pk, status,
                                         <<>>) EXCEPT !.data = data]
               /\ UNCHANGED inflight
       IN  IF ~has_permission("PUT", user) THEN refuse(NotAuthenticatedStatus)
           ELSE IF ~RecipeExists(pk) THEN refuse(HTTP_404_NOT_FOUND)
           ELSE IF ~has_object_permission("PUT", user, recipes[pk])
           THEN refuse(HTTP_403_FORBIDDEN)
           ELSE IF ~is_valid(data, FALSE) \/ ~update_requires(data)
           THEN refuse(HTTP_400_BAD_REQUEST)
           ELSE /\ inflight' = [inflight EXCEPT
                                   ![w] = [op |-> "update", user |-> user,
                                           pk |-> pk, data |-> data,
                                           pc |-> "update"]]
                /\ UNCHANGED response
    /\ before' = Snapshot
    /\ UNCHANGED tables

\* instance = super().update(instance, validated_data): the columns of the row
update_row(w) ==
    /\ Updating(w, "update")
    /\ recipes' = [recipes EXCEPT
                      ![inflight[w].pk].cooking_time = inflight[w].data.cooking_time,
                      ![inflight[w].pk].image = inflight[w].data.image]
    /\ Proceed(w, "tags.set")
    /\ before' = Snapshot
    /\ UNCHANGED <<tag_slugs, users, recipe_ingredients, favorites, shopping_cart,
                   subscriptions, response>>

\* instance.tags.set(tags_data)
update_tags(w) ==
    /\ Updating(w, "tags.set")
    /\ recipes' = [recipes EXCEPT
                      ![inflight[w].pk].tags = Range(inflight[w].data.tags)]
    /\ Proceed(w, "ingredients.clear")
    /\ before' = Snapshot
    /\ UNCHANGED <<tag_slugs, users, recipe_ingredients, favorites, shopping_cart,
                   subscriptions, response>>

\* instance.ingredients.clear()
update_clear(w) ==
    /\ Updating(w, "ingredients.clear")
    /\ recipe_ingredients' = clear_ingredients(recipe_ingredients, inflight[w].pk)
    /\ Proceed(w, "add_ingredients")
    /\ before' = Snapshot
    /\ UNCHANGED <<tag_slugs, users, recipes, favorites, shopping_cart, subscriptions,
                   response>>

\* self.add_ingredients(ingredients_data, recipe): the IntegrityError of the
\* bulk INSERT ends the request with nothing undone
update_add(w) ==
    /\ Updating(w, "add_ingredients")
    /\ LET added == add_ingredients(recipe_ingredients,
                                    inflight[w].data.ingredients, inflight[w].pk)
       IN  /\ recipe_ingredients' = added.table
           /\ IF added.ok
              THEN Proceed(w, "save") /\ UNCHANGED response
              ELSE /\ inflight' = [inflight EXCEPT ![w] = Idle]
                   /\ response' = UpdateAnswer(w, HTTP_500_INTERNAL_SERVER_ERROR,
                                               <<>>)
    /\ before' = Snapshot
    /\ UNCHANGED <<tag_slugs, users, recipes, favorites, shopping_cart, subscriptions>>

\* instance.save() and the answer
update_save(w) ==
    /\ Updating(w, "save")
    /\ LET pk == inflight[w].pk
           written == [recipes EXCEPT
                          ![pk].cooking_time = inflight[w].data.cooking_time,
                          ![pk].image = inflight[w].data.image]
       IN  /\ recipes' = written
           /\ response' = UpdateAnswer(w, HTTP_200_OK,
                                       to_representation(written,
                                                         recipe_ingredients,
                                                         inflight[w].user, pk))
    /\ inflight' = [inflight EXCEPT ![w] = Idle]
    /\ before' = Snapshot
    /\ UNCHANGED <<tag_slugs, users, recipe_ingredients, favorites, shopping_cart,
                   subscriptions>>

\* the payloads of worker w: its tag is one no other worker sends
WorkerPayloads(w) ==
    {[tags |-> <<w>>, ingredients |-> <<Ingredient(i, MIN_NUMBERS_OF_ELEMENTS)>>,
      cooking_time |-> t, image |-> TRUE] :
        i \in IngredientIds, t \in MIN_COOKING_TIME..MAX_COOKING_TIME}

\* recipe 1, written by user 1, carries every tag
InitUpdate ==
    /\ users = UserIds
    /\ tag_slugs = {}
    /\ recipes = [id \in RecipeIds |->
                     IF id = 1
                     THEN [StoredRecipe(1) EXCEPT !.tags = TagIds]
                     ELSE NoRecipe]
    /\ recipe_ingredients =
          [row \in RecipeIngredientRows |->
              IF row = <<1, 1, MIN_NUMBERS_OF_ELEMENTS>> THEN 1 ELSE 0]
    /\ favorites = EmptyTable(UserRecipeRows)
    /\ shopping_cart = EmptyTable(UserRecipeRows)
    /\ subscriptions = EmptyTable(SubscriptionRows)
    /\ inflight = [w \in Workers |-> Idle]
    /\ response = NoResponse
    /\ before = Snapshot

UpdateBegin ==
    \E w \in Workers, user \in Requesters :
        \E data \in WorkerPayloads(w) : update_begin(w, user, 1, data)

UpdateRow == \E w \in Workers : update_row(w)

UpdateTags == \E w \in Workers : update_tags(w)

UpdateClear == \E w \in Workers : update_clear(w)

UpdateAdd == \E w \in Workers : update_add(w)

UpdateSave == \E w \in Workers : update_save(w)

NextUpdate ==
    \/ UpdateBegin
    \/ UpdateRow
    \/ UpdateTags
    \/ UpdateClear
    \/ UpdateAdd
    \/ UpdateSave

SpecUpdate == InitUpdate /\ [][NextUpdate]_vars

\* Deletions.  A user is deleted in the admin site (UserAdmin); the token
\* of a deleted user is gone with it, so requests come from the users that
\* exist and from anonymous clients.
CurrentRequesters == users \cup {Anonymous}

\* on_delete=CASCADE of FavoriteRecipe.user and ShoppingCart.user
cascade_user(table, user) ==
    [row \in UserRecipeRows |-> IF row[1] = user THEN 0 ELSE table[row]]

\* on_delete=CASCADE of Subscription.follower and Subscription.author
cascade_subscriptions(table, user) ==
    [row \in SubscriptionRows |->
        IF row[1] = user \/ row[2] = user THEN 0 ELSE table[row]]

\* deletion of a User row: on_delete=CASCADE of Recipe.author takes the
\* user's recipes, and with them the rows that refer to those
user_delete(id) ==
    LET authored == {pk \in RecipeIds : recipes[pk].author = id}
    IN  /\ id \in users
        /\ users' = users \ {id}
        /\ recipes' = [pk \in RecipeIds |->
                          IF pk \in authored THEN NoRecipe ELSE recipes[pk]]
        /\ recipe_ingredients' =
              [row \in RecipeIngredientRows |->
                  IF row[1] \in authored THEN 0 ELSE recipe_ingredients[row]]
        /\ favorites' =
              [row \in UserRecipeRows |->
                  IF row[2] \in authored THEN 0
                  ELSE cascade_user(favorites, id)[row]]
        /\ shopping_cart' =
              [row \in UserRecipeRows |->
                  IF row[2] \in authored THEN 0
                  ELSE cascade_user(shopping_cart, id)[row]]
        /\ subscriptions' = cascade_subscriptions(subscriptions, id)
        /\ response' = Response("admin", "DELETE", Anonymous, id, 0, <<>>)
        /\ before' = Snapshot
        /\ UNCHANGED <<inflight, tag_slugs>>

\* every user has written a recipe, has every recipe as a favourite and in
\* the cart, and follows every other user
InitCascade ==
    /\ users = UserIds
    /\ tag_slugs = {}
    /\ recipes = [id \in RecipeIds |->
                     StoredRecipe(IF id \in UserIds THEN id ELSE NumUsers)]
    /\ recipe_ingredients =
          [row \in RecipeIngredientRows |->
              IF row[2] = 1 /\ row[3] = MIN_NUMBERS_OF_ELEMENTS THEN 1 ELSE 0]
    /\ favorites = [row \in UserRecipeRows |-> 1]
    /\ shopping_cart = [row \in UserRecipeRows |-> 1]
    /\ subscriptions = [row \in SubscriptionRows |->
                           IF row[1] = row[2] THEN 0 ELSE 1]
    /\ inflight = [w \in Workers |-> Idle]
    /\ response = NoResponse
    /\ before = Snapshot

UserDelete == \E id \in UserIds : user_delete(id)

CurrentDestroy ==
    \E user \in CurrentRequesters, pk \in TargetRecipeIds :
        RecipeDestroy(user, pk)

CurrentCreate == \E user \in CurrentRequesters : RecipeCreate(user, ValidPayload)

CurrentShoppingCart ==
    \E method \in {"POST", "DELETE"}, user \in CurrentRequesters,
       pk \in TargetRecipeIds :
        shopping_cart_action(method, user, pk)

CurrentDownload == \E user \in CurrentRequesters : download_shopping_cart(user)

NextCascade ==
    \/ UserDelete
    \/ CurrentDestroy
    \/ CurrentCreate
    \/ CurrentShoppingCart
    \/ CurrentDownload

SpecCascade == InitCascade /\ [][NextCascade]_vars

(* ----------------------- subscription listing ------------------------- *)
\* request.GET.get('recipes_limit') of a request without the parameter
NoLimit == -1

\* the values of recipes_limit: absent, or a number in decimal digits
Limits == {NoLimit} \cup (0..(NumRecipes + 1))

\* obj.recipes.all(): the author's recipes, latest first (Recipe.Meta.ordering
\* is -pub_date; ids grow with pub_date)
RECURSIVE LatestFirst(_)
LatestFirst(ids) ==
    IF ids = {} THEN <<>>
    ELSE LET latest == CHOOSE id \in ids : \A other \in ids : other <= id
         IN  <<latest>> \o LatestFirst(ids \ {latest})

RecipesOf(author) == {pk \in RecipeIds : recipes[pk].author = author}

\* UserSubscriptionSerializer.get_recipes
get_recipes(obj, limit) ==
    LET all == LatestFirst(RecipesOf(obj))
        listed == IF limit # NoLimit
                  THEN SubSeq(all, 1, IF limit < Len(all) THEN limit ELSE Len(all))
                  ELSE all
    IN  [i \in DOMAIN listed |->
            [id |-> listed[i], cooking_time |-> recipes[listed[i]].cooking_time]]

\* what the queryset of BaseUserViewSet.subscriptions annotates its users
\* with: User.objects.filter(author__follower=request.user) annotates nothing
subscriptions_annotations == {}

\* UserSubscriptionSerializer.to_representation.  recipes_count is an
\* IntegerField(read_only=True) that reads the attribute recipes_count of
\* the user; a read-only field whose attribute is missing is skipped.
UserSubscriptionRead(user, author, limit) ==
    LET fields == [id |-> author,
                   is_subscribed |-> get_is_subscribed(user, author),
                   recipes |-> get_recipes(author, limit)]
    IN  IF "recipes_count" \in subscriptions_annotations
        THEN [id |-> fields.id, is_subscribed |-> fields.is_subscribed,
              recipes |-> fields.recipes,
              recipes_count |-> Cardinality(RecipesOf(author))]
        ELSE fields

\* the pages paginate_queryset can return first: the queryset has no order
FirstPages(authors) ==
    IF Cardinality(authors) <= PAGE_SIZE THEN {authors}
    ELSE {page \in SUBSET authors : Cardinality(page) = PAGE_SIZE}

\* BaseUserViewSet.subscriptions
subscriptions_list(user, limit) ==
    /\ IF ~IsAuthenticated(user)
       THEN response' = [Response("subscriptions", "GET", user, 0,
                                  NotAuthenticatedStatus, <<>>)
                            EXCEPT !.data = [recipes_limit |-> limit]]
       ELSE LET authors == {id \in users : subscriptions[<<user, id>>] > 0}
            IN  \E result_pages \in FirstPages(authors) :
                    response' =
                        [Response("subscriptions", "GET", user, 0, HTTP_200_OK,
                                  {UserSubscriptionRead(user, author, limit) :
                                      author \in result_pages})
                            EXCEPT !.data = [recipes_limit |-> limit]]
    /\ before' = Snapshot
    /\ UNCHANGED <<tag_slugs, users, recipes, recipe_ingredients, favorites,
                   shopping_cart, subscriptions, inflight>>

\* a database in which every recipe id is free or a recipe of some user
InitListing ==
    /\ users = UserIds
    /\ tag_slugs = {}
    /\ recipes \in [RecipeIds -> {NoRecipe} \cup {StoredRecipe(a) : a \in UserIds}]
    /\ recipe_ingredients =
          [row \in RecipeIngredientRows |->
              IF /\ recipes[row[1]] # NoRecipe
                 /\ row[2] = 1 /\ row[3] = MIN_NUMBERS_OF_ELEMENTS
              THEN 1 ELSE 0]
    /\ favorites = EmptyTable(UserRecipeRows)
    /\ shopping_cart = EmptyTable(UserRecipeRows)
    /\ subscriptions = EmptyTable(SubscriptionRows)
    /\ inflight = [w \in Workers |-> Idle]
    /\ response = NoResponse
    /\ before = Snapshot

Subscriptions ==
    \E user \in Requesters, limit \in Limits : subscriptions_list(user, limit)

NextListing ==
    \/ Subscribe
    \/ Subscriptions

SpecListing == InitListing /\ [][NextListing]_vars

(* -------------------------------- tags --------------------------------- *)
\* A slug is a sequence of characters.  "a", "0", "-" and "_" are in the
\* class [-a-zA-Z0-9_]; the space and the newline are not.
SlugClass == {"a", "0", "-", "_"}
Chars == {"a", "_", " ", "\n"}
Whitespace == {" ", "\n"}

Slugs == UNION {[1..n -> Chars] : n \in 0..MaxSlugLen}

\* slug matches [-a-zA-Z0-9_]+ from its first to its last character
FullMatch(slug) ==
    /\ slug # <<>>
    /\ \A i \in DOMAIN slug : slug[i] \in SlugClass

\* recipes.validators.validate_slug: re.match(r'^[-a-zA-Z0-9_]+$', slug),
\* in which $ matches at the end and also before a newline that ends the
\* string; a slug that does not match raises ValueError
validate_slug(slug) ==
    IF \/ FullMatch(slug)
       \/ /\ Len(slug) > 1
          /\ slug[Len(slug)] = "\n"
          /\ FullMatch(SubSeq(slug, 1, Len(slug) - 1))
    THEN "ok"
    ELSE "ValueError"

\* the default validator of a SlugField: [-a-zA-Z0-9_]+ up to the very end
\* of the string, else ValidationError
default_validate_slug(slug) ==
    IF FullMatch(slug) THEN "ok" ELSE "ValidationError"

\* the form field of the admin site strips the whitespace around the value
RECURSIVE strip(_)
strip(value) ==
    IF value = <<>> THEN value
    ELSE IF value[1] \in Whitespace THEN strip(Tail(value))
    ELSE IF value[Len(value)] \in Whitespace
    THEN strip(SubSeq(value, 1, Len(value) - 1))
    ELSE value

\* TagAdmin, add view: the form field cleans the value (a required
\* SlugField), the model validates it (Tag.slug: the default validator,
\* validate_slug, unique=True) and the row is saved
admin_add_tag(raw) ==
    LET slug == strip(raw)
        outcome ==
            IF slug = <<>> THEN "ValidationError"
            ELSE IF default_validate_slug(slug) # "ok" THEN "ValidationError"
            ELSE IF validate_slug(slug) # "ok" THEN "ValueError"
            ELSE IF slug \in tag_slugs THEN "ValidationError"
            ELSE "saved"
    IN  /\ tag_slugs' = IF outcome = "saved" THEN tag_slugs \cup {slug}
                        ELSE tag_slugs
        /\ response' = [Response("admin", "POST", Anonymous, 0, 0, outcome)
                            EXCEPT !.data = raw]
        /\ before' = Snapshot
        /\ UNCHANGED <<users, recipes, recipe_ingredients, favorites,
                       shopping_cart, subscriptions, inflight>>

\* management command import_csv for tags.csv: a Tag for each row of the
\* file, bulk_create(objects, ignore_conflicts=True); no validator runs
import_csv(file) ==
    /\ tag_slugs' = tag_slugs \cup file
    /\ response' = [Response("import_csv", "none", Anonymous, 0, 0, "Finished")
                        EXCEPT !.data = file]
    /\ before' = Snapshot
    /\ UNCHANGED <<users, recipes, recipe_ingredients, favorites,
                   shopping_cart, subscriptions, inflight>>

TagsFit(added) == Cardinality(tag_slugs \cup added) <= MaxTags

AdminAddTag ==
    \E raw \in Slugs : TagsFit({strip(raw)}) /\ admin_add_tag(raw)

\* the tags.csv files of one row and of two
Files == {{first, second} : first, second \in Slugs}

ImportCsv == \E file \in Files : TagsFit(file) /\ import_csv(file)

NextTags ==
    \/ AdminAddTag
    \/ ImportCsv

SpecTags == Init /\ [][NextTags]_vars

(* ------------------------- the list of recipes ------------------------- *)
\* The values of a BooleanFilter query parameter: not given, true, false.
FilterValues == {"", "true", "false"}

\* mutant: a filter that, given false, keeps the recipes not in favourites
filter_is_favorited_excluding(queryset, value, user) ==
    IF IsAuthenticated(user)
    THEN IF value
         THEN [pk \in RecipeIds |-> queryset[pk] * favorites[<<user, pk>>]]
         ELSE [pk \in RecipeIds |->
                  IF favorites[<<user, pk>>] = 0 THEN queryset[pk] ELSE 0]
    ELSE queryset

\* RecipeFilter.filter_is_favorited: filter(favorites__user=user) is the
\* join of the queryset with the user's FavoriteRecipe rows
filter_is_favorited(queryset, value, user) ==
    IF value /\ IsAuthenticated(user)
    THEN [pk \in RecipeIds |-> queryset[pk] * favorites[<<user, pk>>]]
    ELSE queryset

\* RecipeFilter.filter_is_in_shopping_cart
filter_is_in_shopping_cart(queryset, value, user) ==
    IF value /\ IsAuthenticated(user)
    THEN [pk \in RecipeIds |-> queryset[pk] * shopping_cart[<<user, pk>>]]
    ELSE queryset

\* RecipeFilter.qs: a filter whose parameter is not given is not applied,
\* and BooleanFilter reads "true" as True and "false" as False
filter_queryset(queryset, params, user) ==
    LET favorited ==
            IF params.is_favorited # ""
            THEN filter_is_favorited(queryset,
                                     params.is_favorited = "true", user)
            ELSE queryset
    IN  IF params.is_in_shopping_cart # ""
        THEN filter_is_in_shopping_cart(
                 favorited, params.is_in_shopping_cart = "true", user)
        ELSE favorited

\* the rows of a queryset in Recipe's ordering (-pub_date), a recipe as
\* many times as the join yields it
RECURSIVE rows_in_order(_, _)
rows_in_order(queryset, ids) ==
    IF ids = <<>> THEN <<>>
    ELSE [k \in 1..queryset[Head(ids)] |-> Head(ids)]
             \o rows_in_order(queryset, Tail(ids))

\* BasePagination: the first page
paginate_queryset(rows) ==
    SubSeq(rows, 1, IF Len(rows) < PAGE_SIZE THEN Len(rows) ELSE PAGE_SIZE)

\* RecipeViewSet.list: GET /recipes/ is open to everyone; the queryset is
\* Recipe.objects.all(), every stored recipe once
recipe_list(user, params) ==
    /\ has_permission("GET", user)
    /\ response' =
          [Response("recipe_list", "GET", user, 0, HTTP_200_OK,
                    paginate_queryset(
                        rows_in_order(
                            filter_queryset(
                                [pk \in RecipeIds |->
                                    IF RecipeExists(pk) THEN 1 ELSE 0],
                                params, user),
                            LatestFirst(RecipeIds))))
              EXCEPT !.data = params]
    /\ UNCHANGED <<tables, inflight>>
    /\ before' = Snapshot

RecipeList ==
    \E user \in Requesters, favorited \in FilterValues, in_cart \in FilterValues :
        recipe_list(user, [is_favorited |-> favorited,
                           is_in_shopping_cart |-> in_cart])

NextFilter ==
    \/ Favorite
    \/ ShoppingCart
    \/ RecipeList

SpecFilter == InitSocial /\ [][NextFilter]_vars

(* ------------------------------- routing ------------------------------- *)
\* An @action of a view set: its name, whether it is a detail route, and
\* its url_path as the segments after the prefix (and the lookup).
Action(name, detail, url_path) ==
    [name |-> name, detail |-> detail, url_path |-> url_path]

\* the extra actions of djoser.views.UserViewSet, all on the list route
UserViewSet ==
    {Action(name, FALSE, <<name>>) :
        name \in {"me", "activation", "resend_activation", "set_password",
                  "reset_password", "reset_password_confirm", "set_username",
                  "reset_username", "reset_username_confirm"}}

\* BaseUserViewSet(UserViewSet): me, avatar, subscribe, subscriptions
BaseUserViewSet ==
    UserViewSet
        \cup {Action("avatar", FALSE, <<"me", "avatar">>),
              Action("subscribe", TRUE, <<"subscribe">>),
              Action("subscriptions", FALSE, <<"subscriptions">>)}

\* the extra actions of RecipeViewSet
RecipeViewSet ==
    {Action("favorite", TRUE, <<"favorite">>),
     Action("shopping_cart", TRUE, <<"shopping_cart">>),
     Action("download_shopping_cart", FALSE, <<"download_shopping_cart">>),
     Action("get_link", TRUE, <<"get-link">>)}

\* router_v1: the view set registered under each prefix
router_v1 == [recipes |-> RecipeViewSet, users |-> UserViewSet]

\* DefaultRouter's patterns in their order: the list route, the list
\* actions, the detail route (one segment, the lookup), the detail actions
\* (the lookup and the url_path); no pattern is Resolver404
resolve(path) ==
    LET viewset == router_v1[path.prefix]
        on_list == {a \in viewset : ~a.detail /\ a.url_path = path.rest}
        on_detail == {a \in viewset :
                         /\ a.detail
                         /\ Len(path.rest) > 1
                         /\ a.url_path = Tail(path.rest)}
    IN  IF path.rest = <<>> THEN "list"
        ELSE IF on_list # {} THEN (CHOOSE a \in on_list : TRUE).name
        ELSE IF Len(path.rest) = 1 THEN "retrieve"
        ELSE IF on_detail # {} THEN (CHOOSE a \in on_detail : TRUE).name
        ELSE "Resolver404"

\* BaseUserViewSet.avatar (User.avatar itself is not part of the state)
avatar(method, user) ==
    /\ response' = Response("avatar", method, user, 0,
                            IF ~IsAuthenticated(user) THEN NotAuthenticatedStatus
                            ELSE IF method = "DELETE" THEN HTTP_204_NO_CONTENT
                            ELSE HTTP_200_OK,
                            <<>>)
    /\ before' = Snapshot
    /\ UNCHANGED <<tables, inflight>>

\* the URL dispatcher: the view the path resolves to handles the request;
\* the detail route with a lookup that is no id finds no object, and a path
\* of no pattern is Resolver404: both answer 404
dispatch(method, user, path) ==
    LET view == resolve(path)
    IN  CASE view = "subscribe" -> subscribe(method, user, path.id)
          [] view = "subscriptions" -> subscriptions_list(user, NoLimit)
          [] view = "avatar" -> avatar(method, user)
          [] view = "favorite" -> favorite(method, user, path.id)
          [] view = "shopping_cart" -> shopping_cart_action(method, user, path.id)
          [] view = "download_shopping_cart" -> download_shopping_cart(user)
          [] OTHER ->
                /\ response' = [Response(view, method, user, path.id,
                                         HTTP_404_NOT_FOUND, <<>>)
                                   EXCEPT !.data = path]
                /\ before' = Snapshot
                /\ UNCHANGED <<tables, inflight>>

\* the requests of the API's clients to the users and recipes routes: a
\* path is its prefix, the segments after it ("{id}" stands for a numeric
\* segment) and the value of the numeric segment
Requests ==
    {<<method, [prefix |-> "users", rest |-> <<"{id}", "subscribe">>, id |-> id]>> :
        method \in {"POST", "DELETE"}, id \in TargetUserIds}
    \cup {<<"GET", [prefix |-> "users", rest |-> <<"subscriptions">>, id |-> 0]>>}
    \cup {<<method, [prefix |-> "users", rest |-> <<"me", "avatar">>, id |-> 0]>> :
             method \in {"PUT", "DELETE"}}
    \cup {<<method, [prefix |-> "recipes", rest |-> <<"{id}", action>>, id |-> pk]>> :
             method \in {"POST", "DELETE"},
             action \in {"favorite", "shopping_cart"},
             pk \in TargetRecipeIds}
    \cup {<<"GET", [prefix |-> "recipes",
                    rest |-> <<"download_shopping_cart">>, id |-> 0]>>}

Request ==
    \E user \in Requesters, request \in Requests :
        dispatch(request[1], user, request[2])

SpecRoutes == InitSocial /\ [][Request]_vars

(* ------------------------------ claims --------------------------------- *)
ClientError == 400..499

\* the tables are as the last step found them
TablesUnchanged == Snapshot = before

\* the last step changed one (user, recipe) or (follower, author) row of
\* one table to the given number of copies, and nothing else
OnlyRowChanged(table, row, copies) ==
    Snapshot = [before EXCEPT ![table] = [@ EXCEPT ![row] = copies]]

\* what C2 says of a POST of an authenticated user on an existing recipe
AddToAsClaimed(table, user, pk) ==
    IF before[table][<<user, pk>>] > 0
    THEN response.status \in ClientError /\ TablesUnchanged
    ELSE response.status = HTTP_201_CREATED
         /\ OnlyRowChanged(table, <<user, pk>>, 1)

\* C2: a POST to favorite (shopping_cart) of an authenticated user on an
\* existing recipe fails with a 4xx and changes no table when the (user,
\* recipe) row exists, and otherwise creates exactly that row and answers 201.
C2_PostCreatesOnceElseConflict ==
    \A user \in UserIds, pk \in RecipeIds :
        (/\ response.method = "POST"
         /\ response.user = user
         /\ response.pk = pk
         /\ before.recipes[pk] # NoRecipe)
        => /\ response.op = "favorite" => AddToAsClaimed("favorites", user, pk)
           /\ response.op = "shopping_cart"
              => AddToAsClaimed("shopping_cart", user, pk)

\* C2 witness: a favorite POST for a row that was already there was refused
C2_Witness ==
    /\ response.op = "favorite"
    /\ response.method = "POST"
    /\ response.status = HTTP_400_BAD_REQUEST
    /\ response.user \in UserIds
    /\ before.favorites[<<response.user, response.pk>>] = 1

\* what C3 says of a DELETE of an authenticated user
DeleteAsClaimed(table, user, pk, target_exists) ==
    IF ~target_exists
    THEN response.status = HTTP_404_NOT_FOUND /\ TablesUnchanged
    ELSE IF before[table][<<user, pk>>] = 0
    THEN response.status = HTTP_400_BAD_REQUEST /\ TablesUnchanged
    ELSE response.status = HTTP_204_NO_CONTENT
         /\ OnlyRowChanged(table, <<user, pk>>,
                           before[table][<<user, pk>>] - 1)

\* C3: a DELETE on favorite, shopping_cart or subscribe of an authenticated
\* user answers 404 when the recipe or user named does not exist, 400 when
\* the user has no such row, both without changing a row, and otherwise
\* removes exactly that one row and answers 204.
C3_DeleteRemovesOneRowElseBadRequest ==
    \A user \in UserIds :
        (response.method = "DELETE" /\ response.user = user)
        => LET pk == response.pk
               recipe_exists == pk \in RecipeIds /\ before.recipes[pk] # NoRecipe
           IN  /\ response.op = "favorite"
                  => DeleteAsClaimed("favorites", user, pk, recipe_exists)
               /\ response.op = "shopping_cart"
                  => DeleteAsClaimed("shopping_cart", user, pk, recipe_exists)
               /\ response.op = "subscribe"
                  => DeleteAsClaimed("subscriptions", user, pk,
                                     pk \in before.users)

\* C3 witness: a favorite DELETE of a user without that row was refused
\* with 400 while another user has the recipe as a favourite
C3_Witness ==
    /\ response.op = "favorite"
    /\ response.method = "DELETE"
    /\ response.status = HTTP_400_BAD_REQUEST
    /\ response.user \in UserIds
    /\ before.favorites[<<response.user, response.pk>>] = 0
    /\ \E other \in UserIds : favorites[<<other, response.pk>>] = 1

\* C4: a subscribe POST of a user to themselves fails with a validation
\* error (400) and creates nothing, and no Subscription row ever has
\* follower = author.
C4_NoSelfSubscription ==
    /\ \A user \in UserIds : subscriptions[<<user, user>>] = 0
    /\ \A user \in UserIds :
          (/\ response.op = "subscribe"
           /\ response.method = "POST"
           /\ response.user = user
           /\ response.pk = user)
          => (response.status = HTTP_400_BAD_REQUEST /\ TablesUnchanged)

\* C4 witness: a user who already follows somebody tried to subscribe to
\* themselves and was refused
C4_Witness ==
    /\ response.op = "subscribe"
    /\ response.method = "POST"
    /\ response.user \in UserIds
    /\ response.pk = response.user
    /\ response.status = HTTP_400_BAD_REQUEST
    /\ \E author \in UserIds : subscriptions[<<response.user, author>>] = 1

\* C5: a subscribe POST for a (follower, author) pair that has a row fails
\* with a 4xx and leaves Subscription as it is, and no pair ever has more
\* than one row.
C5_SubscribeOncePerPair ==
    /\ \A row \in SubscriptionRows : subscriptions[row] <= 1
    /\ \A user \in UserIds, id \in UserIds :
          (/\ response.op = "subscribe"
           /\ response.method = "POST"
           /\ response.user = user
           /\ response.pk = id
           /\ before.subscriptions[<<user, id>>] > 0)
          => (response.status \in ClientError /\ TablesUnchanged)

\* C5 witness: a subscribe POST for a pair that had its row was refused
C5_Witness ==
    /\ response.op = "subscribe"
    /\ response.method = "POST"
    /\ response.status = HTTP_400_BAD_REQUEST
    /\ response.user \in UserIds
    /\ response.pk \in UserIds
    /\ response.pk # response.user
    /\ before.subscriptions[<<response.user, response.pk>>] = 1

\* C9: for an anonymous request is_favorited and is_in_shopping_cart of
\* every recipe and is_subscribed of every user are false, whatever rows
\* exist; so they are in the representation an anonymous GET is answered.
C9_AnonymousFlagsFalse ==
    /\ \A pk \in RecipeIds :
          /\ ~get_is_favorited(Anonymous, pk)
          /\ ~get_is_in_shopping_cart(Anonymous, pk)
    /\ \A id \in UserIds : ~get_is_subscribed(Anonymous, id)
    /\ (/\ response.op = "recipes"
        /\ response.method = "GET"
        /\ response.user = Anonymous
        /\ response.status = HTTP_200_OK)
       => /\ ~response.body.is_favorited
          /\ ~response.body.is_in_shopping_cart
          /\ ~response.body.author.is_subscribed

\* C9 witness: an anonymous GET of a recipe that is a favourite and in a
\* cart, written by an author who has a follower
C9_Witness ==
    /\ response.op = "recipes"
    /\ response.method = "GET"
    /\ response.user = Anonymous
    /\ response.status = HTTP_200_OK
    /\ \E u \in UserIds :
          /\ favorites[<<u, response.pk>>] = 1
          /\ shopping_cart[<<u, response.pk>>] = 1
          /\ subscriptions[<<u, response.body.author.id>>] = 1

\* C8: download_shopping_cart leaves every table as it is.
C8_DownloadIsReadOnly ==
    response.op = "download_shopping_cart" => TablesUnchanged

\* C8 witness: an export that listed something, with rows in every table
C8_Witness ==
    /\ response.op = "download_shopping_cart"
    /\ response.status = HTTP_200_OK
    /\ response.body # <<>>
    /\ \E row \in UserRecipeRows : favorites[row] = 1
    /\ \E row \in SubscriptionRows : subscriptions[row] = 1

WriteMethods == {"POST", "PUT", "PATCH", "DELETE"}

\* C10: an anonymous request to a write action (recipe create, update,
\* delete; favorite, shopping_cart, subscribe POST and DELETE) is answered
\* 401 and changes no row.
C10_AnonymousWritesRefused ==
    (/\ response.user = Anonymous
     /\ response.method \in WriteMethods
     /\ response.op \in {"recipes", "favorite", "shopping_cart", "subscribe"})
    => (response.status = HTTP_401_UNAUTHORIZED /\ TablesUnchanged)

\* C10 witness: an anonymous DELETE of a stored recipe that is somebody's
\* favourite was answered 401
C10_Witness ==
    /\ response.user = Anonymous
    /\ response.op = "recipes"
    /\ response.method = "DELETE"
    /\ response.status = HTTP_401_UNAUTHORIZED
    /\ RecipeExists(response.pk)
    /\ \E u \in UserIds : favorites[<<u, response.pk>>] = 1

\* C1: whatever favorite and shopping_cart POST and DELETE requests users
\* make, and however the workers interleave them, FavoriteRecipe and
\* ShoppingCart hold at most one row for each (user, recipe) pair.
C1_OneRowPerUserAndRecipe ==
    \A row \in UserRecipeRows : favorites[row] <= 1 /\ shopping_cart[row] <= 1

\* C1 witness: two POSTs for the same row both passed the check, the row is
\* stored once and the INSERT of the second was refused by the database
C1_Witness ==
    /\ response.op = "favorite"
    /\ response.method = "POST"
    /\ response.status = HTTP_500_INTERNAL_SERVER_ERROR
    /\ favorites[<<response.user, response.pk>>] = 1

\* the (name, unit) pairs of the ingredients of the recipes in a user's cart
CartPairs(user) ==
    {<<IngredientName(row[2]), IngredientUnit(row[2])>> :
        row \in {r \in RecipeIngredientRows :
                    recipe_ingredients[r] > 0 /\ shopping_cart[<<user, r[1]>>] > 0}}

\* the sum of amount over the RecipeIngredient rows of the recipes of the
\* user's cart, recipe by recipe and ingredient by ingredient
RECURSIVE TotalOfRecipes(_, _, _)
TotalOfRecipes(user, pair, ids) ==
    IF ids = {} THEN 0
    ELSE LET recipe == CHOOSE id \in ids : TRUE
             RECURSIVE TotalOfRows(_)
             TotalOfRows(rows) ==
                 IF rows = {} THEN 0
                 ELSE LET row == CHOOSE r \in rows : TRUE
                      IN  row[3] * recipe_ingredients[row]
                          + TotalOfRows(rows \ {row})
         IN  (IF shopping_cart[<<user, recipe>>] > 0
              THEN TotalOfRows({r \in RecipeIngredientRows :
                                  /\ r[1] = recipe
                                  /\ <<IngredientName(r[2]),
                                       IngredientUnit(r[2])>> = pair})
              ELSE 0)
             + TotalOfRecipes(user, pair, ids \ {recipe})

\* C6: the export has exactly one line for each (name, unit) pair of the
\* recipes in the user's cart, and the number on it is the sum of amount
\* over the RecipeIngredient rows of those recipes with that pair.
C6_ExportSumsPerPair ==
    (response.op = "download_shopping_cart" /\ response.status = HTTP_200_OK)
    => LET lines == response.body
           user == response.user
       IN  /\ \A i, j \in DOMAIN lines :
                 (lines[i][1] = lines[j][1] /\ lines[i][4] = lines[j][4])
                 => i = j
           /\ {<<lines[i][1], lines[i][4]>> : i \in DOMAIN lines}
                 = CartPairs(user)
           /\ \A i \in DOMAIN lines :
                 lines[i][3] = TotalOfRecipes(user,
                                              <<lines[i][1], lines[i][4]>>,
                                              RecipeIds)

\* C6 witness: an export with a line that adds the smallest amount of an
\* ingredient in one recipe to the largest amount of it in another
C6_Witness ==
    /\ response.op = "download_shopping_cart"
    /\ response.status = HTTP_200_OK
    /\ \E i \in DOMAIN response.body, ingredient \in IngredientIds,
          a, b \in RecipeIds :
          /\ a # b
          /\ shopping_cart[<<response.user, a>>] = 1
          /\ shopping_cart[<<response.user, b>>] = 1
          /\ recipe_ingredients[<<a, ingredient, MIN_NUMBERS_OF_ELEMENTS>>] = 1
          /\ recipe_ingredients[<<b, ingredient, MAX_NUMBERS_OF_ELEMENTS>>] = 1
          /\ response.body[i] =
                <<IngredientName(ingredient), "-",
                  MIN_NUMBERS_OF_ELEMENTS + MAX_NUMBERS_OF_ELEMENTS,
                  IngredientUnit(ingredient)>>

\* C7: the lines of the export are in ascending order of ingredient name.
C7_ExportOrderedByName ==
    (response.op = "download_shopping_cart" /\ response.status = HTTP_200_OK)
    => \A i, j \in DOMAIN response.body :
          i < j => response.body[i][1] < response.body[j][1]

\* C11: after any favorite / shopping_cart POST and DELETE requests, the
\* representation of a recipe served to an authenticated user has
\* is_favorited (is_in_shopping_cart) true exactly when that user's
\* FavoriteRecipe (ShoppingCart) row for the recipe exists; the rows of
\* other users do not count.
C11_FlagsFollowOwnRows ==
    \A user \in UserIds, pk \in RecipeIds :
        (/\ response.op = "recipes"
         /\ response.method = "GET"
         /\ response.status = HTTP_200_OK
         /\ response.user = user
         /\ response.pk = pk)
        => /\ response.body.is_favorited <=> favorites[<<user, pk>>] > 0
           /\ response.body.is_in_shopping_cart
              <=> shopping_cart[<<user, pk>>] > 0

\* C11 witness: a user is served a recipe that is their favourite and not in
\* their cart, while another user has it in the cart and not as a favourite
C11_Witness ==
    /\ response.op = "recipes"
    /\ response.method = "GET"
    /\ response.status = HTTP_200_OK
    /\ response.user \in UserIds
    /\ response.body.is_favorited
    /\ ~response.body.is_in_shopping_cart
    /\ \E other \in UserIds \ {response.user} :
          /\ shopping_cart[<<other, response.pk>>] = 1
          /\ favorites[<<other, response.pk>>] = 0

RecipeWrites == {"POST", "PUT", "PATCH"}

\* the last request was a recipe create or update that was accepted
RecipeWritten ==
    /\ response.op = "recipes"
    /\ response.method \in RecipeWrites
    /\ response.status \in {HTTP_200_OK, HTTP_201_CREATED}

\* C12: the answer to an accepted recipe create or update equals a read of
\* the recipe that follows it, and its tags, its (ingredient id, amount)
\* pairs and its cooking_time are those of the payload.
C12_WriteAnswersWhatIsRead ==
    RecipeWritten
    => LET data == response.data
           body == response.body
       IN  /\ body = RecipeRead(response.user, response.pk)
           /\ body.tags = Range(data.tags)
           /\ {<<i.id, i.amount>> : i \in body.ingredients}
                 = {<<data.ingredients[k].id, data.ingredients[k].amount>> :
                       k \in DOMAIN data.ingredients}
           /\ body.cooking_time = data.cooking_time

\* C12 witness: a PUT replaced the one tag and one ingredient of a recipe by
\* another tag and another ingredient
C12_Witness ==
    /\ RecipeWritten
    /\ response.method = "PUT"
    /\ before.recipes[response.pk].tags \cap Range(response.data.tags) = {}
    /\ \A k \in DOMAIN response.data.ingredients, a \in Amounts :
          before.recipe_ingredients[<<response.pk,
                                      response.data.ingredients[k].id, a>>] = 0
    /\ \E r \in RecipeIngredientRows :
          r[1] = response.pk /\ before.recipe_ingredients[r] = 1

\* a payload without tags, with a repeated tag, without ingredients or with
\* a repeated ingredient id
BrokenPayload(data) ==
    \/ data.tags = <<>>
    \/ \E i, j \in DOMAIN data.tags : i # j /\ data.tags[i] = data.tags[j]
    \/ data.ingredients = <<>>
    \/ \E i, j \in DOMAIN data.ingredients :
          i # j /\ data.ingredients[i].id = data.ingredients[j].id

\* the last request was a recipe create or update that got past the
\* permissions and, for an update, found its recipe
WriteReachedSerializer ==
    /\ response.op = "recipes"
    /\ response.method \in RecipeWrites
    /\ response.user \in UserIds
    /\ response.method # "POST"
       => /\ response.pk \in RecipeIds
          /\ before.recipes[response.pk] # NoRecipe
          /\ before.recipes[response.pk].author = response.user

\* C13: a recipe create or update without tags, with a repeated tag, without
\* ingredients or with a repeated ingredient id is refused with a validation
\* error (400) and stores nothing; so every stored recipe has a tag and a
\* RecipeIngredient row, and no ingredient twice.
C13_TagsAndIngredientsRequired ==
    /\ (WriteReachedSerializer /\ BrokenPayload(response.data))
       => (response.status = HTTP_400_BAD_REQUEST /\ TablesUnchanged)
    /\ \A pk \in StoredRecipeIds :
          /\ recipes[pk].tags # {}
          /\ \E r \in RecipeIngredientRows :
                r[1] = pk /\ recipe_ingredients[r] > 0
          /\ \A r1, r2 \in RecipeIngredientRows :
                (/\ r1[1] = pk /\ r2[1] = pk /\ r1[2] = r2[2]
                 /\ recipe_ingredients[r1] > 0 /\ recipe_ingredients[r2] > 0)
                => (r1 = r2 /\ recipe_ingredients[r1] = 1)

\* C13 witness: the author's PUT with a repeated ingredient id was refused
\* while the recipe holds two ingredients
C13_Witness ==
    /\ WriteReachedSerializer
    /\ response.method = "PUT"
    /\ response.status = HTTP_400_BAD_REQUEST
    /\ Len(response.data.ingredients) = 2
    /\ response.data.ingredients[1].id = response.data.ingredients[2].id
    /\ Cardinality({r \in RecipeIngredientRows :
                       r[1] = response.pk /\ recipe_ingredients[r] = 1}) = 2

\* C16: an update or delete of a recipe by an authenticated user who is not
\* its author is answered 403 and changes nothing; a stored recipe, its tags
\* and its ingredient rows change only by an update or delete of its author.
C16_OnlyAuthorChangesRecipe ==
    \A pk \in RecipeIds :
        before.recipes[pk] # NoRecipe
        => /\ (/\ response.op = "recipes"
               /\ response.method \in {"PUT", "PATCH", "DELETE"}
               /\ response.pk = pk
               /\ response.user \in UserIds
               /\ response.user # before.recipes[pk].author)
              => (response.status = HTTP_403_FORBIDDEN /\ TablesUnchanged)
           /\ (\/ recipes[pk] # before.recipes[pk]
               \/ \E r \in RecipeIngredientRows :
                     /\ r[1] = pk
                     /\ recipe_ingredients[r] # before.recipe_ingredients[r])
              => /\ response.op = "recipes"
                 /\ response.method \in {"PUT", "PATCH", "DELETE"}
                 /\ response.pk = pk
                 /\ response.user = before.recipes[pk].author

\* C16 witness: a PUT of another user, with a payload that passes and differs
\* from what the recipe holds, was answered 403
C16_Witness ==
    /\ response.op = "recipes"
    /\ response.method = "PUT"
    /\ response.status = HTTP_403_FORBIDDEN
    /\ response.user \in UserIds
    /\ RecipeExists(response.pk)
    /\ recipes[response.pk].author # response.user
    /\ is_valid(response.data, FALSE)
    /\ recipes[response.pk].tags # Range(response.data.tags)

\* C19: every recipe stored through the API has its cooking_time within
\* MIN_COOKING_TIME and MAX_COOKING_TIME.
C19_CookingTimeWithinBounds ==
    \A pk \in StoredRecipeIds :
        /\ recipes[pk].cooking_time >= MIN_COOKING_TIME
        /\ recipes[pk].cooking_time <= MAX_COOKING_TIME

\* C15: when POSTs for the same (user, recipe) row run at the same time, one
\* row is stored and every POST is answered 201 or with a 4xx, never with
\* the error of a constraint violation that nothing handled.
C15_RaceLoserGetsConflict ==
    /\ \A row \in UserRecipeRows : favorites[row] <= 1 /\ shopping_cart[row] <= 1
    /\ (/\ response.op \in {"favorite", "shopping_cart"}
        /\ response.method = "POST")
       => response.status \in {HTTP_201_CREATED} \cup ClientError

\* C14: a recipe update that fails at one of its steps leaves no change of
\* its earlier steps visible.  Under SpecUpdate the tags of a request are
\* sent by no other request and differ from the tags the recipe started
\* with, so tags equal to those of the failed request are its change.
C14_FailedUpdateLeavesNothing ==
    (/\ response.op = "recipes"
     /\ response.method = "PUT"
     /\ response.status = HTTP_500_INTERNAL_SERVER_ERROR)
    => recipes[response.pk].tags # Range(response.data.tags)

\* C17: every FavoriteRecipe, ShoppingCart, RecipeIngredient and
\* Subscription row, and every recipe, refers to users and recipes that
\* exist, whatever was deleted; and a deleted recipe adds nothing to an
\* export of the shopping cart.
C17_NoRowOutlivesItsOwner ==
    /\ \A row \in UserRecipeRows :
          (favorites[row] > 0 \/ shopping_cart[row] > 0)
          => (row[1] \in users /\ RecipeExists(row[2]))
    /\ \A row \in RecipeIngredientRows :
          recipe_ingredients[row] > 0 => RecipeExists(row[1])
    /\ \A row \in SubscriptionRows :
          subscriptions[row] > 0 => (row[1] \in users /\ row[2] \in users)
    /\ \A pk \in StoredRecipeIds : recipes[pk].author \in users
    /\ (response.op = "download_shopping_cart" /\ response.status = HTTP_200_OK)
       => \A i \in DOMAIN response.body :
             response.body[i][3] =
                 TotalOfRecipes(response.user,
                                <<response.body[i][1], response.body[i][4]>>,
                                StoredRecipeIds)

\* C17 witness: after a recipe was deleted, a user who had it in the cart
\* exports the cart, which still lists another recipe
C17_Witness ==
    /\ response.op = "download_shopping_cart"
    /\ response.status = HTTP_200_OK
    /\ response.body # <<>>
    /\ \E pk \in RecipeIds : ~RecipeExists(pk)
    /\ \E id \in UserIds : id \notin users

\* C18: every author entry of the subscription listing has recipes_count
\* equal to the number of the author's recipes whatever recipes_limit is,
\* and a recipes list of min(recipes_limit, number) recipes, all of them
\* when recipes_limit is absent.
C18_ListingCountsAndTruncates ==
    (response.op = "subscriptions" /\ response.status = HTTP_200_OK)
    => \A entry \in response.body :
          LET total == Cardinality(RecipesOf(entry.id))
              limit == response.data.recipes_limit
          IN  /\ "recipes_count" \in DOMAIN entry
              /\ entry.recipes_count = total
              /\ Len(entry.recipes) =
                    IF limit = NoLimit \/ limit > total THEN total ELSE limit

\* C20: a tag is stored only with a slug that matches ^[-a-zA-Z0-9_]+$; a
\* slug with a space, or with another character outside the class, is
\* refused when the tag is created and no tag is stored.
C20_StoredSlugsMatchPattern ==
    \A slug \in tag_slugs : FullMatch(slug)

\* the RecipeIngredient rows of a recipe in a table, with their copies
RowsOf(table, pk) ==
    {r \in RecipeIngredientRows : r[1] = pk /\ table[r] > 0}

\* C22: after a successful update the RecipeIngredient rows of the recipe
\* are exactly the (ingredient, amount) pairs of the payload, one row each,
\* and the rows and tags of every other recipe are as they were.
C22_UpdateReplacesIngredients ==
    (RecipeWritten /\ response.method \in {"PUT", "PATCH"})
    => LET pk == response.pk
           data == response.data
       IN  /\ RowsOf(recipe_ingredients, pk)
                 = {<<pk, data.ingredients[k].id, data.ingredients[k].amount>> :
                       k \in DOMAIN data.ingredients}
           /\ \A r \in RowsOf(recipe_ingredients, pk) : recipe_ingredients[r] = 1
           /\ \A other \in RecipeIds \ {pk} :
                 /\ recipes[other] = before.recipes[other]
                 /\ \A r \in RecipeIngredientRows :
                       r[1] = other
                       => recipe_ingredients[r] = before.recipe_ingredients[r]

\* C22 witness: a PATCH gave a recipe of two ingredients one other row
\* while another recipe is stored with its rows
C22_Witness ==
    /\ RecipeWritten
    /\ response.method = "PATCH"
    /\ Cardinality(RowsOf(before.recipe_ingredients, response.pk)) = 2
    /\ Cardinality(RowsOf(recipe_ingredients, response.pk)) = 1
    /\ RowsOf(recipe_ingredients, response.pk)
          \cap RowsOf(before.recipe_ingredients, response.pk) = {}
    /\ \E other \in StoredRecipeIds \ {response.pk} :
          RowsOf(recipe_ingredients, other) # {}

\* C25: an update by the recipe's author with a payload without image, or
\* without ingredients, is refused with a validation error (400) and
\* changes nothing.
C25_UpdateRequiresImageAndIngredients ==
    (/\ WriteReachedSerializer
     /\ response.method \in {"PUT", "PATCH"}
     /\ (~response.data.image \/ response.data.ingredients = <<>>))
    => (response.status = HTTP_400_BAD_REQUEST /\ TablesUnchanged)

\* C25 witness: the author's PATCH with tags, ingredients and cooking_time
\* that pass but no image was refused
C25_Witness ==
    /\ WriteReachedSerializer
    /\ response.method = "PATCH"
    /\ response.status = HTTP_400_BAD_REQUEST
    /\ ~response.data.image
    /\ validate_recipe(response.data)
    /\ fields_valid(response.data, TRUE)

\* what a filter of the list keeps for a user: with the parameter true and
\* the user authenticated, the recipes with a row of theirs in the table
Kept(table, value, user) ==
    IF value = "true" /\ user # Anonymous
    THEN {pk \in RecipeIds : table[<<user, pk>>] > 0}
    ELSE RecipeIds

\* C23: the list of recipes with is_favorited (is_in_shopping_cart) true,
\* asked by an authenticated user, holds exactly the recipes with a
\* FavoriteRecipe (ShoppingCart) row of that user, each once; with the
\* parameter false or absent, or for an anonymous user, the filter keeps
\* every recipe.
C23_ListFilters ==
    response.op = "recipe_list"
    => /\ response.status = HTTP_200_OK
       /\ Range(response.body)
             = StoredRecipeIds
                  \cap Kept(favorites, response.data.is_favorited, response.user)
                  \cap Kept(shopping_cart, response.data.is_in_shopping_cart,
                            response.user)
       /\ Len(response.body) = Cardinality(Range(response.body))

\* C23 witness: a user who has one recipe in favourites and another in the
\* cart, while someone else has the second in favourites, asked for their
\* favourites and got the one recipe
C23_Witness ==
    /\ response.op = "recipe_list"
    /\ response.user # Anonymous
    /\ response.data = [is_favorited |-> "true", is_in_shopping_cart |-> ""]
    /\ Len(response.body) = 1
    /\ \E pk \in RecipeIds \ Range(response.body) :
          /\ shopping_cart[<<response.user, pk>>] > 0
          /\ \E other \in UserIds \ {response.user} : favorites[<<other, pk>>] > 0

\* the export computed from a set of recipes alone: per (name, unit) pair
\* of their ingredients one line with the sum of the amounts, each recipe
\* of the set taken once
ExportOf(own) ==
    LET rows == {r \in RecipeIngredientRows :
                    r[1] \in own /\ recipe_ingredients[r] > 0}
        pair(r) == <<IngredientName(r[2]), IngredientUnit(r[2])>>
        RECURSIVE total(_)
        total(rs) ==
            IF rs = {} THEN 0
            ELSE LET r == CHOOSE x \in rs : TRUE
                 IN  r[3] * recipe_ingredients[r] + total(rs \ {r})
    IN  {<<pair(r)[1], "-", total({x \in rows : pair(x) = pair(r)}), pair(r)[2]>> :
            r \in rows}

\* C24: the export of a user is the export of the recipes of their own
\* ShoppingCart rows, whatever rows of ShoppingCart, FavoriteRecipe or
\* Subscription the other users have: a recipe that is in other carts too is
\* counted once.
C24_ExportOfOwnCartOnly ==
    (response.op = "download_shopping_cart" /\ response.status = HTTP_200_OK)
    => /\ Range(response.body)
             = ExportOf({pk \in RecipeIds :
                            shopping_cart[<<response.user, pk>>] > 0})
       /\ Len(response.body) = Cardinality(Range(response.body))

\* C24 witness: a user exported a cart with a recipe that another user has
\* in their cart and in their favourites, that other user being subscribed
C24_Witness ==
    /\ response.op = "download_shopping_cart"
    /\ response.status = HTTP_200_OK
    /\ response.body # <<>>
    /\ \E other \in UserIds \ {response.user}, pk \in RecipeIds :
          /\ shopping_cart[<<response.user, pk>>] > 0
          /\ shopping_cart[<<other, pk>>] > 0
          /\ favorites[<<other, pk>>] > 0
          /\ \E id \in UserIds : subscriptions[<<other, id>>] > 0

\* C21: an authenticated request to /users/{id}/subscribe,
\* /users/subscriptions or /users/me/avatar reaches the subscribe,
\* subscriptions or avatar handler: none of them ends as a path that no
\* handler serves.
C21_UserRoutesServed ==
    (response.data # NoData /\ response.user # Anonymous)
    => ~(/\ response.data.prefix = "users"
         /\ response.op \in {"retrieve", "Resolver404"}
         /\ response.status = HTTP_404_NOT_FOUND)

====
